---- MODULE Spec2Model ----
(***************************************************************************)
(* A model of casanovo's DeNovoDataModule (casanovo/denovo/dataloaders.py) *)
(* and of the ModelRunner lifecycle exercised by                           *)
(* tests/unit_tests/test_runner.py.                                        *)
(*                                                                         *)
(* Python values are represented as follows.                               *)
(*   - Optional[T]: None is the empty sequence <<>>, a value x is <<x>>.   *)
(*   - str: a sequence of one-character strings, so that pathlib's suffix  *)
(*     and Python's `in` are computed rather than looked up.               *)
(*   - the outcome of a call that may raise: a record with tag "ok" and    *)
(*     val, or tag "raise" and exc.                                        *)
(***************************************************************************)
EXTENDS Integers, Sequences, FiniteSets

(***************************************************************************)
(* Bounds of the model.                                                    *)
(***************************************************************************)
\* longest path list handed to the constructor as test_paths
MaxPaths == 2
\* largest precursor charge held by a peak file or a pre-built store
TopCharge == 2

None == <<>>
Some(x) == <<x>>

Ok(v) == [tag |-> "ok", val |-> v]
Raise(e) == [tag |-> "raise", exc |-> e]

\* Python truthiness of an Optional[bool] (`if shuffle:`).
Truthy(o) == o = Some(TRUE)

(***************************************************************************)
(* The files of the model's file system.  Every raw peak file and every    *)
(* pre-built store holds one record per charge in 1..TopCharge.            *)
(***************************************************************************)
P_mgf == <<"a", ".", "m", "g", "f">>
P_mzML == <<"b", ".", "m", "z", "M", "L">>
P_lance == <<"c", ".", "l", "a", "n", "c", "e">>
P_mg == <<"d", ".", "m", "g">>
P_txt == <<"e", ".", "t", "x", "t">>

AllPaths == {P_mgf, P_mzML, P_lance, P_mg, P_txt}
\* the paths that hold a pre-built Spectrum Record Store
Stores == {P_lance}
FileCharges(p) == 1..TopCharge

S_mgf == <<".", "m", "g", "f">>
S_lance == <<".", "l", "a", "n", "c", "e">>
S_mzml == <<".", "m", "z", "m", "l">>
S_mzxml == <<".", "m", "z", "x", "m", "l">>
S_mzML == <<".", "m", "z", "M", "L">>

(***************************************************************************)
(* pathlib.PurePath.suffix of a one-component path: the text from the last *)
(* dot on, unless that dot is the first or the last character.             *)
(***************************************************************************)
RFind(name, ch) ==
    LET I == {i \in 1..Len(name) : name[i] = ch}
    IN  IF I = {} THEN 0 ELSE CHOOSE i \in I : \A j \in I : j <= i

Suffix(name) ==
    LET i == RFind(name, ".")
    IN  IF 1 < i /\ i < Len(name) THEN SubSeq(name, i, Len(name)) ELSE <<>>

\* Python's `s in t` for two strings: s is a substring of t.
StrIn(s, t) ==
    \E k \in 0..(Len(t) - Len(s)) : SubSeq(t, k + 1, k + Len(s)) = s

VARIABLES
    train_paths, valid_paths, test_paths,
    train_batch_size, eval_batch_size,
    lance_dir, shuffle, buffer_size, max_charge,
    train_dataset, valid_dataset, test_dataset,
    loader, error

dmvars == <<train_paths, valid_paths, test_paths, train_batch_size,
            eval_batch_size, lance_dir, shuffle, buffer_size, max_charge,
            train_dataset, valid_dataset, test_dataset, loader, error>>

dmconfig == <<train_paths, valid_paths, test_paths, train_batch_size,
              eval_batch_size, lance_dir, shuffle, buffer_size, max_charge>>


(***************************************************************************)
(* DeNovoDataModule.__init__                                               *)
(***************************************************************************)
valid_charge == 1..max_charge

custom_field_test_mgf ==
    << [name |-> "scans", family |-> "mgf"],
       [name |-> "title", family |-> "mgf"] >>

custom_field_test_mzml ==
    << [name |-> "scans", family |-> "mzml"],
       [name |-> "title", family |-> "mzml"] >>

custom_field_anno == << [name |-> "seq", family |-> "anno"] >>

PathLists(n) == UNION {[1..k -> AllPaths] : k \in 0..n}

DataModuleInit ==
    /\ train_paths \in {None, Some(<<P_mgf>>), Some(<<P_lance>>)}
    /\ valid_paths \in {None, Some(<<P_mgf>>), Some(<<P_lance>>)}
    /\ test_paths \in {None} \cup {Some(ps) : ps \in PathLists(MaxPaths)}
    /\ train_batch_size = 128
    /\ eval_batch_size = 1028
    /\ lance_dir = "lance_dir"
    /\ \E arg \in {Some(TRUE), Some(FALSE), None} :
          shuffle = IF Truthy(arg) THEN arg ELSE None
    /\ buffer_size = 100000
    /\ max_charge \in 1..TopCharge
    /\ train_dataset = None
    /\ valid_dataset = None
    /\ test_dataset = None
    /\ loader = None
    /\ error = None

(***************************************************************************)
(* DeNovoDataModule.make_dataset                                           *)
(***************************************************************************)
\* Path(f).suffix in (".mgf"): the parenthesised string is no tuple, so
\* this is Python's substring test.
IsMgfSuffix(f) == StrIn(Suffix(f), S_mgf)
\* Path(f).suffix in (".mzml", ".mzxml", ".mzML"): membership in a tuple.
IsMzmlSuffix(f) == Suffix(f) \in {S_mzml, S_mzxml, S_mzML}
\* Path(f).suffix in (".lance"): again a substring test.
IsLanceSuffix(f) == StrIn(Suffix(f), S_lance)

\* all([Path(f).suffix in ... for f in paths]), any([... for f in paths])
AllMgf(paths) == \A i \in 1..Len(paths) : IsMgfSuffix(paths[i])
AllMzml(paths) == \A i \in 1..Len(paths) : IsMzmlSuffix(paths[i])
AnyLance(paths) == \E i \in 1..Len(paths) : IsLanceSuffix(paths[i])

CustomFields(paths, annotated, mode) ==
    LET c0 == IF annotated THEN custom_field_anno ELSE <<>>
        c1 == IF mode = "test" /\ AllMgf(paths)
              THEN c0 \o custom_field_test_mgf ELSE c0
        c2 == IF mode = "test" /\ AllMzml(paths)
              THEN c1 \o custom_field_test_mzml ELSE c1
    IN  c2

LancePath(mode) == <<lance_dir, mode>>

BatchSize(mode) ==
    IF mode = "train" THEN train_batch_size ELSE eval_batch_size

\* (Annotated)SpectrumDataset.from_lance(path, ...): the store is loaded as
\* it is; a path that holds no store cannot be opened.
FromLance(path, annotated, mode) ==
    IF path \in Stores
    THEN Ok([cls |-> IF annotated THEN "AnnotatedSpectrumDataset"
                     ELSE "SpectrumDataset",
             origin |-> "from_lance",
             spectra |-> <<path>>,
             path |-> path,
             custom_fields |-> <<>>,
             charges |-> FileCharges(path),
             batch_size |-> BatchSize(mode),
             shuffler |-> None])
    ELSE Raise("ValueError")

\* (Annotated)SpectrumDataset(spectra=paths, path=lance_path,
\* parse_kwargs=...): every file is parsed into a new store; the parser
\* keeps the records whose charge is in valid_charge.
ParseCharges(paths, charges) ==
    UNION {FileCharges(paths[i]) \cap charges : i \in 1..Len(paths)}

FromSpectra(paths, annotated, mode, custom_fields) ==
    Ok([cls |-> IF annotated THEN "AnnotatedSpectrumDataset"
                ELSE "SpectrumDataset",
        origin |-> "parsed",
        spectra |-> paths,
        path |-> LancePath(mode),
        custom_fields |-> custom_fields,
        charges |-> ParseCharges(paths, valid_charge),
        batch_size |-> BatchSize(mode),
        shuffler |-> None])

\* ShufflerIterDataPipe(dataset, buffer_size=self.buffer_size)
Shuffler(dataset) == [dataset EXCEPT !.shuffler = Some(buffer_size)]

make_dataset(paths, annotated, mode, shuffle_arg) ==
    LET custom_fields == CustomFields(paths, annotated, mode)
        built == IF AnyLance(paths)
                 THEN FromLance(paths[1], annotated, mode)
                 ELSE FromSpectra(paths, annotated, mode, custom_fields)
    IN  IF built.tag = "ok" /\ Truthy(shuffle_arg)
        THEN Ok(Shuffler(built.val))
        ELSE built

(***************************************************************************)
(* DeNovoDataModule.setup: the datasets are built in order; an exception   *)
(* raised by make_dataset leaves the remaining datasets as they were.      *)
(***************************************************************************)
Stages == {"None", "fit", "validate", "test"}

\* a setup that builds the training dataset whatever the stage
SetupTrain_AnyStage(stage) ==
    IF train_paths # None
    THEN make_dataset(train_paths[1], TRUE, "train", shuffle)
    ELSE Ok(None)

SetupTrain(stage) ==
    IF stage \in {"None", "fit", "validate"} /\ train_paths # None
    THEN make_dataset(train_paths[1], TRUE, "train", shuffle)
    ELSE Ok(None)

\* a setup that builds the validation dataset without asking whether
\* valid_paths was supplied
SetupValid_Unguarded(stage) ==
    IF stage \in {"None", "fit", "validate"}
    THEN make_dataset(IF valid_paths = None THEN <<>> ELSE valid_paths[1],
                      TRUE, "valid", Some(FALSE))
    ELSE Ok(None)

SetupValid(stage) ==
    IF stage \in {"None", "fit", "validate"} /\ valid_paths # None
    THEN make_dataset(valid_paths[1], TRUE, "valid", Some(FALSE))
    ELSE Ok(None)

\* a setup that hands the shuffle flag to the test dataset too
SetupTest_Shuffling(stage, annotated) ==
    IF stage \in {"None", "test"} /\ test_paths # None
    THEN make_dataset(test_paths[1], annotated, "test", shuffle)
    ELSE Ok(None)

SetupTest(stage, annotated) ==
    IF stage \in {"None", "test"} /\ test_paths # None
    THEN make_dataset(test_paths[1], annotated, "test", Some(FALSE))
    ELSE Ok(None)

\* the new value of a dataset attribute: assigned when its make_dataset
\* call was made and returned, kept otherwise
Assigned(old, res, reached) ==
    IF reached /\ res.tag = "ok" /\ res.val # None THEN Some(res.val) ELSE old

setup(stage, annotated) ==
    LET tr == SetupTrain(stage)
        va == SetupValid(stage)
        te == SetupTest(stage, annotated)
        trOk == tr.tag = "ok"
        vaOk == trOk /\ va.tag = "ok"
    IN  /\ train_dataset' = Assigned(train_dataset, tr, TRUE)
        /\ valid_dataset' = Assigned(valid_dataset, va, trOk)
        /\ test_dataset' = Assigned(test_dataset, te, vaOk)
        /\ error' = IF ~trOk THEN Some(tr.exc)
                    ELSE IF ~vaOk THEN Some(va.exc)
                    ELSE IF te.tag # "ok" THEN Some(te.exc)
                    ELSE None
        /\ UNCHANGED <<dmconfig, loader>>

Setup == \E stage \in Stages, annotated \in BOOLEAN : setup(stage, annotated)

(***************************************************************************)
(* torch.utils.data.DataLoader(dataset, shuffle=shuffle, ...) and the      *)
(* accessors.  DataLoader's constructor takes the length of the dataset    *)
(* only when it builds a random sampler, that is when shuffle is set and   *)
(* the dataset is not iterable: with None for a dataset that raises a      *)
(* TypeError, and without shuffle the constructor returns a loader.        *)
(***************************************************************************)
DataLoader(dataset, shuffle_arg) ==
    IF dataset = None /\ Truthy(shuffle_arg)
    THEN Raise("TypeError")
    ELSE Ok([dataset |-> dataset, shuffle |-> shuffle_arg])

_make_loader(dataset, shuffle_arg) == DataLoader(dataset, shuffle_arg)

Access(name, res) ==
    /\ loader' = IF res.tag = "ok"
                 THEN Some([accessor |-> name, dataset |-> res.val.dataset,
                            shuffle |-> res.val.shuffle])
                 ELSE None
    /\ error' = IF res.tag = "ok" THEN None ELSE Some(res.exc)
    /\ UNCHANGED <<dmconfig, train_dataset, valid_dataset, test_dataset>>

train_dataloader ==
    Access("train_dataloader", _make_loader(train_dataset, shuffle))

val_dataloader ==
    Access("val_dataloader", _make_loader(valid_dataset, None))

test_dataloader ==
    Access("test_dataloader", _make_loader(test_dataset, None))

predict_dataloader ==
    Access("predict_dataloader", _make_loader(test_dataset, None))

\* functools.partial(prepare_psm_batch, protein_database=...): the module
\* neither defines nor imports prepare_psm_batch, so evaluating the name
\* raises a NameError.
PsmCollateFn == Raise("NameError")

\* self._make_loader(self.test_dataset, self.eval_batch_size,
\* collate_fn=...): the arguments are evaluated before the call is made;
\* _make_loader itself takes no collate_fn, so the call would raise a
\* TypeError had the arguments been evaluated.
db_dataloader ==
    Access("db_dataloader",
           IF PsmCollateFn.tag # "ok" THEN PsmCollateFn
           ELSE Raise("TypeError"))

(***************************************************************************)
(* ModelRunner (casanovo/denovo/model_runner.py), as its specification     *)
(* and tests/unit_tests/test_runner.py describe it.                        *)
(*                                                                         *)
(* The file system holds three checkpoint paths: "blah" does not exist,    *)
(* "weights" is an empty file, and "ckpt" is what save_checkpoint last     *)
(* wrote (None until then): the weights' layer count and the recorded      *)
(* hyperparameter map, which a test may delete.                            *)
(***************************************************************************)
\* largest layer count of a Run Configuration
MaxLayers == 2

BeamChoices == {1, 12}
PeriodChoices == {2, 5}

Configs ==
    [n_layers : 1..MaxLayers, n_beams : BeamChoices,
     cosine_schedule_period_iters : PeriodChoices]

ModelFilenames == {None, Some("blah"), Some("weights"), Some("ckpt")}

\* the peak files of test_evaluate
PeakFiles == {"mgf_small", "mgf_small_unannotated", "mzml_small"}

VARIABLES
    config, model_filename, ckpt_file,
    model, state, r_error, r_warning, result_file, last_op

rvars == <<config, model_filename, ckpt_file, model, state, r_error,
           r_warning, result_file, last_op>>

NoOp == [op |-> "none", train |-> FALSE, evaluate |-> FALSE]

\* ModelRunner(config, model_filename)
RunnerInit ==
    /\ config \in Configs
    /\ model_filename \in ModelFilenames
    /\ ckpt_file = None
    /\ model = None
    /\ state = "uninitialized"
    /\ r_error = None
    /\ r_warning = None
    /\ result_file = None
    /\ last_op = NoOp

RunnerIdle ==
    /\ config = [n_layers |-> 1, n_beams |-> 1,
                 cosine_schedule_period_iters |-> 2]
    /\ model_filename = None
    /\ ckpt_file = None
    /\ model = None
    /\ state = "uninitialized"
    /\ r_error = None
    /\ r_warning = None
    /\ result_file = None
    /\ last_op = NoOp

NewRunner ==
    /\ config' \in Configs
    /\ model_filename' \in ModelFilenames
    /\ model' = None
    /\ state' = "uninitialized"
    /\ r_error' = None
    /\ r_warning' = None
    /\ last_op' = [op |-> "new", train |-> FALSE, evaluate |-> FALSE]
    /\ UNCHANGED <<ckpt_file, result_file>>

\* a reconciler that keeps every field the checkpoint recorded
Reconcile_KeepsCheckpoint(hparams, cfg) == hparams

\* Checkpoint Reconciler: architecture fields from the checkpoint, the
\* other fields from the Run Configuration.
Reconcile(hparams, cfg) ==
    [n_layers |-> hparams.n_layers,
     n_beams |-> cfg.n_beams,
     cosine_schedule_period_iters |-> cfg.cosine_schedule_period_iters]

\* an initialization that builds a fresh model whenever no checkpoint path
\* is given, for inference too
InitializedModel_FreshAlways(train) ==
    IF model_filename = None THEN Ok(config)
    ELSE IF model_filename = Some("blah") THEN Raise("FileNotFoundError")
    ELSE IF model_filename = Some("weights") THEN Raise("EOFError")
    ELSE IF ckpt_file = None THEN Raise("FileNotFoundError")
    ELSE IF ckpt_file[1].hyper_parameters # None
         THEN Ok(Reconcile(ckpt_file[1].hyper_parameters[1], config))
    ELSE IF ckpt_file[1].weights_layers = config.n_layers
         THEN Ok(config)
    ELSE Raise("RuntimeError")

\* the model initialize_model(train) builds, or the error it raises
InitializedModel(train) ==
    IF model_filename = None
    THEN IF train THEN Ok(config) ELSE Raise("ValueError")
    ELSE IF model_filename = Some("blah") THEN Raise("FileNotFoundError")
    ELSE IF model_filename = Some("weights") THEN Raise("EOFError")
    ELSE IF ckpt_file = None THEN Raise("FileNotFoundError")
    ELSE IF ckpt_file[1].hyper_parameters # None
         THEN Ok(Reconcile(ckpt_file[1].hyper_parameters[1], config))
    ELSE IF ckpt_file[1].weights_layers = config.n_layers
         THEN Ok(config)
    ELSE Raise("RuntimeError")

ReadyState(train) ==
    IF train THEN "ready-for-training" ELSE "ready-for-inference"

initialize_model(train) ==
    LET res == InitializedModel(train) IN
    /\ state # "terminated"
    /\ model' = IF res.tag = "ok" THEN Some(res.val) ELSE model
    /\ state' = IF res.tag = "ok" THEN ReadyState(train) ELSE state
    /\ r_error' = IF res.tag = "ok" THEN None ELSE Some(res.exc)
    /\ last_op' = [op |-> "initialize_model", train |-> train,
                   evaluate |-> FALSE]
    /\ UNCHANGED <<config, model_filename, ckpt_file, r_warning, result_file>>

InitializeModel == \E train \in BOOLEAN : initialize_model(train)

\* runner.trainer.save_checkpoint(ckpt) after training
save_checkpoint ==
    /\ state = "ready-for-training"
    /\ ckpt_file' = Some([hyper_parameters |-> Some(model[1]),
                          weights_layers |-> model[1].n_layers])
    /\ last_op' = [op |-> "save_checkpoint", train |-> FALSE,
                   evaluate |-> FALSE]
    /\ UNCHANGED <<config, model_filename, model, state, r_error, r_warning,
                   result_file>>

\* del ckpt_data["hyper_parameters"]; torch.save(ckpt_data, ckpt)
DropHyperParameters ==
    /\ ckpt_file # None
    /\ ckpt_file[1].hyper_parameters # None
    /\ ckpt_file' = Some([ckpt_file[1] EXCEPT !.hyper_parameters = None])
    /\ last_op' = [op |-> "drop_hyper_parameters", train |-> FALSE,
                   evaluate |-> FALSE]
    /\ UNCHANGED <<config, model_filename, model, state, r_error, r_warning,
                   result_file>>

\* how predict(paths, evaluate=True) ends for a set of peak files
Evaluated(paths) ==
    IF "mgf_small_unannotated" \in paths THEN Raise("TypeError")
    ELSE IF "mgf_small" \notin paths THEN Raise("FileNotFoundError")
    ELSE IF "mzml_small" \in paths THEN Ok(Some("RuntimeWarning"))
    ELSE Ok(None)

\* a writer that saves the artifact only when the run succeeds
Artifact_OnlyOnSuccess(succeeded) ==
    IF succeeded THEN Some("metadata+rows") ELSE None

\* the results artifact after predict: the metadata header is written
\* first, the prediction rows only when the run succeeds
Artifact(succeeded) ==
    IF succeeded THEN Some("metadata+rows") ELSE Some("metadata")

predict(paths, evaluate) ==
    LET init == InitializedModel(FALSE)
        run == IF init.tag # "ok" THEN init
               ELSE IF evaluate THEN Evaluated(paths)
               ELSE Ok(None)
    IN
    /\ state # "terminated"
    /\ model' = IF init.tag = "ok" THEN Some(init.val) ELSE model
    /\ state' = IF init.tag = "ok" THEN "ready-for-inference" ELSE state
    /\ result_file' = Artifact(run.tag = "ok")
    /\ r_error' = IF run.tag = "ok" THEN None ELSE Some(run.exc)
    /\ r_warning' = IF run.tag = "ok" THEN run.val ELSE None
    /\ last_op' = [op |-> "predict", train |-> FALSE, evaluate |-> evaluate]
    /\ UNCHANGED <<config, model_filename, ckpt_file>>

Predict ==
    \E paths \in (SUBSET PeakFiles) \ {{}}, evaluate \in BOOLEAN :
        predict(paths, evaluate)

\* result_file.unlink()
Unlink ==
    /\ result_file # None
    /\ result_file' = None
    /\ last_op' = [op |-> "unlink", train |-> FALSE, evaluate |-> FALSE]
    /\ UNCHANGED <<config, model_filename, ckpt_file, model, state, r_error,
                   r_warning>>

\* ModelRunner.__exit__
Exit ==
    /\ state # "terminated"
    /\ state' = "terminated"
    /\ last_op' = [op |-> "exit", train |-> FALSE, evaluate |-> FALSE]
    /\ UNCHANGED <<config, model_filename, ckpt_file, model, r_error,
                   r_warning, result_file>>

(***************************************************************************)
(* scale_to_unit_norm, the last step of preprocessing_fn.  A spectrum is   *)
(* the intensity vector that the first four steps of the chain leave (it   *)
(* is empty when they removed every peak).  The quotient x / sqrt(n) is    *)
(* kept as the pair of x and n; numpy's 0.0 / 0.0 is nan, the pair of 0    *)
(* and 0, and raises nothing.                                              *)
(***************************************************************************)
\* most peaks left in a spectrum by the first four steps
MaxPeaks == 3
\* largest intensity of a peak
MaxIntensity == 3

VARIABLES spectrum, scaled

pvars == <<spectrum, scaled>>

Spectra ==
    UNION {[1..k -> 0..MaxIntensity] : k \in 0..MaxPeaks}

RECURSIVE SumSq(_)
SumSq(v) == IF v = <<>> THEN 0 ELSE v[1] * v[1] + SumSq(Tail(v))

\* np.linalg.norm(intensity), squared
NormSq(intensity) == SumSq(intensity)

Divide(intensity, normSq) ==
    [i \in 1..Len(intensity) |-> [num |-> intensity[i], den2 |-> normSq]]

scale_to_unit_norm(spec) ==
    Ok([spec EXCEPT !.intensity = Divide(spec.intensity,
                                         NormSq(spec.intensity))])

PreInit ==
    /\ spectrum \in {[intensity |-> v] : v \in Spectra}
    /\ scaled = None

PreIdle ==
    /\ spectrum = [intensity |-> <<>>]
    /\ scaled = None

\* the parser applies the last step to the record it is ingesting
ScaleToUnitNorm ==
    /\ scaled = None
    /\ scaled' = Some(scale_to_unit_norm(spectrum))
    /\ UNCHANGED spectrum

DataModuleIdle ==
    /\ train_paths = None /\ valid_paths = None /\ test_paths = None
    /\ train_batch_size = 128 /\ eval_batch_size = 1028
    /\ lance_dir = "lance_dir"
    /\ shuffle = Some(TRUE) /\ buffer_size = 100000
    /\ max_charge = TopCharge
    /\ train_dataset = None /\ valid_dataset = None /\ test_dataset = None
    /\ loader = None /\ error = None

vars == <<dmvars, rvars, pvars>>

(***************************************************************************)
(* Spec: a Data Module and the calls made on it.                           *)
(***************************************************************************)
Init == DataModuleInit /\ RunnerIdle /\ PreIdle

Next ==
    \/ Setup /\ UNCHANGED <<rvars, pvars>>
    \/ train_dataloader /\ UNCHANGED <<rvars, pvars>>
    \/ val_dataloader /\ UNCHANGED <<rvars, pvars>>
    \/ test_dataloader /\ UNCHANGED <<rvars, pvars>>
    \/ predict_dataloader /\ UNCHANGED <<rvars, pvars>>
    \/ db_dataloader /\ UNCHANGED <<rvars, pvars>>

Spec == Init /\ [][Next]_vars

(***************************************************************************)
(* SpecRunner: Model Runners over one file system.                         *)
(***************************************************************************)
InitRunner == DataModuleIdle /\ RunnerInit /\ PreIdle

NextRunner ==
    \/ NewRunner /\ UNCHANGED <<dmvars, pvars>>
    \/ InitializeModel /\ UNCHANGED <<dmvars, pvars>>
    \/ save_checkpoint /\ UNCHANGED <<dmvars, pvars>>
    \/ DropHyperParameters /\ UNCHANGED <<dmvars, pvars>>
    \/ Predict /\ UNCHANGED <<dmvars, pvars>>
    \/ Unlink /\ UNCHANGED <<dmvars, pvars>>
    \/ Exit /\ UNCHANGED <<dmvars, pvars>>

SpecRunner == InitRunner /\ [][NextRunner]_vars

(***************************************************************************)
(* SpecPre: the unit-norm step applied to one spectrum.                    *)
(***************************************************************************)
InitPre == DataModuleIdle /\ RunnerIdle /\ PreInit

NextPre == ScaleToUnitNorm /\ UNCHANGED <<dmvars, rvars>>

SpecPre == InitPre /\ [][NextPre]_vars

(***************************************************************************)
(* Claims about the Data Module, checked under Spec.                       *)
(***************************************************************************)
Datasets == <<train_dataset, valid_dataset, test_dataset>>

\* C1: a split's dataset is set only if its path list was supplied at
\* construction; a split whose path list is absent stays None in every
\* reachable state, whatever setup calls were made.
C1_DatasetOnlyIfPaths ==
    /\ train_paths = None => train_dataset = None
    /\ valid_paths = None => valid_dataset = None
    /\ test_paths = None => test_dataset = None

\* setup has built the training dataset (so the stage covered the
\* validation split too) while valid_paths is absent.
C1_Witness ==
    /\ train_paths # None /\ train_dataset # None
    /\ valid_paths = None /\ valid_dataset = None
    /\ test_paths = None /\ test_dataset = None
    /\ error = None

\* C2: a dataloader accessor called while its dataset is unset fails at the
\* call; no accessor returns a loader that wraps an unset dataset.
C2_AccessorFailsWhenUnset ==
    loader # None => loader[1].dataset # None

\* a path that names a pre-built store, and one that names a raw peak file
IsStorePath(f) == Suffix(f) = S_lance
IsRawPath(f) == Suffix(f) # S_lance
MixesStoreAndRaw(paths) ==
    /\ \E i \in 1..Len(paths) : IsStorePath(paths[i])
    /\ \E i \in 1..Len(paths) : IsRawPath(paths[i])

\* C3: make_dataset called with a path set that holds both a store path
\* (.lance) and a raw peak file builds no dataset: it fails fast.
C3_MixedPathsBuildNothing ==
    (test_paths # None /\ MixesStoreAndRaw(test_paths[1]))
        => test_dataset = None

HasField(ds, fam) ==
    \E i \in 1..Len(ds.custom_fields) : ds.custom_fields[i].family = fam
IsFamilyA(f) == Suffix(f) = S_mgf
IsFamilyB(f) == Suffix(f) \in {S_mzml, S_mzxml, S_mzML}

\* C4: in a test dataset parsed from raw files the family-A scan-id/title
\* fields are extracted only when every path is a .mgf file, the family-B
\* fields only when every path is a .mzml/.mzxml/.mzML file, and none when
\* the set holds an unrecognized extension; the sequence field is extracted
\* exactly when the dataset is annotated; the training and validation
\* datasets carry no scan-id/title fields.
C4_FieldsFollowFamilies ==
    /\ (test_dataset # None /\ test_dataset[1].origin = "parsed") =>
          LET ds == test_dataset[1] IN
          /\ HasField(ds, "mgf") =>
                \A i \in 1..Len(ds.spectra) : IsFamilyA(ds.spectra[i])
          /\ HasField(ds, "mzml") =>
                \A i \in 1..Len(ds.spectra) : IsFamilyB(ds.spectra[i])
          /\ HasField(ds, "anno") <=> ds.cls = "AnnotatedSpectrumDataset"
    /\ \A d \in {train_dataset, valid_dataset} :
          (d # None /\ d[1].origin = "parsed") =>
              ~HasField(d[1], "mgf") /\ ~HasField(d[1], "mzml")

EvalAccessors == {"val_dataloader", "test_dataloader", "predict_dataloader"}

\* C5: the validation and test datasets are never wrapped in the shuffle
\* buffer and their loaders are created without shuffling; the training
\* dataset is wrapped, and its loader shuffles, exactly when the shuffle
\* flag is on.
C5_OnlyTrainingShuffled ==
    /\ valid_dataset # None => valid_dataset[1].shuffler = None
    /\ test_dataset # None => test_dataset[1].shuffler = None
    /\ train_dataset # None =>
          (train_dataset[1].shuffler # None <=> Truthy(shuffle))
    /\ (loader # None /\ loader[1].accessor \in EvalAccessors) =>
          /\ ~Truthy(loader[1].shuffle)
          /\ loader[1].dataset # None => loader[1].dataset[1].shuffler = None
    /\ (loader # None /\ loader[1].accessor = "train_dataloader") =>
          (Truthy(loader[1].shuffle) <=> Truthy(shuffle))

\* the shuffle flag is on, all three datasets are built, and the validation
\* loader has been handed out over the built validation dataset.
C5_Witness ==
    /\ Truthy(shuffle)
    /\ train_dataset # None /\ train_dataset[1].shuffler = Some(buffer_size)
    /\ valid_dataset # None /\ test_dataset # None
    /\ loader # None /\ loader[1].accessor = "val_dataloader"
    /\ loader[1].dataset = valid_dataset

\* C10: no dataset that make_dataset returned, for any split and for raw
\* files and pre-built stores alike, holds a record whose precursor charge
\* exceeds max_charge.
C10_NoChargeAboveMax ==
    \A i \in 1..3 :
        Datasets[i] # None =>
            \A c \in Datasets[i][1].charges : c <= max_charge

\* db_dataloader was the last call made and it raised
DbLoaderFailed == error \in {Some("NameError"), Some("TypeError")}

\* C11: once setup has built the test dataset, db_dataloader does not fail
\* and returns a loader over that test dataset.
C11_DbLoaderServesTestDataset ==
    /\ test_dataset # None => ~DbLoaderFailed
    /\ (loader # None /\ loader[1].accessor = "db_dataloader") =>
          loader[1].dataset = test_dataset

\* C12: setup('test') leaves train_dataset and valid_dataset unchanged,
\* setup('fit') and setup('validate') leave test_dataset unchanged, and no
\* setup call changes the path lists, batch sizes, shuffle flag, buffer
\* size, store directory or charge limit.  Each part is written in its
\* contrapositive form: a step that changes what the call must leave
\* alone is no step of that call.
C12_SetupFrame ==
    [][ /\ (train_dataset' # train_dataset \/ valid_dataset' # valid_dataset)
              => ~(\E a \in BOOLEAN : setup("test", a))
        /\ (test_dataset' # test_dataset)
              => ~(\E a \in BOOLEAN : setup("fit", a) \/ setup("validate", a))
        /\ (dmconfig' # dmconfig) => ~Setup ]_vars

\* only setup('test') has built a dataset: the training and validation
\* path lists were supplied and their datasets are still unset.
C12_Witness ==
    /\ train_paths # None /\ train_dataset = None
    /\ valid_paths # None /\ valid_dataset = None
    /\ test_dataset # None
    /\ error = None

(***************************************************************************)
(* Claims about the Model Runner, checked under SpecRunner.                *)
(***************************************************************************)
\* C6: with no checkpoint path, initialize_model succeeds, with a fresh
\* model built from the Run Configuration, exactly when train is true;
\* with train false it fails with a ValueError, and a runner without a
\* checkpoint path is never ready for inference.
C6_NoCheckpointNeedsTrain ==
    /\ (last_op.op = "initialize_model" /\ model_filename = None) =>
          /\ r_error = None <=> last_op.train
          /\ last_op.train =>
                state = "ready-for-training" /\ model = Some(config)
          /\ ~last_op.train => r_error = Some("ValueError")
    /\ model_filename = None => state # "ready-for-inference"

\* a runner without a checkpoint path was initialized for training, and
\* then initialize_model(train=False) failed on it.
C6_Witness ==
    /\ last_op.op = "initialize_model" /\ ~last_op.train
    /\ model_filename = None
    /\ r_error = Some("ValueError")
    /\ state = "ready-for-training" /\ model = Some(config)

LoadedFromCheckpoint ==
    /\ last_op.op = "initialize_model"
    /\ r_error = None
    /\ model_filename = Some("ckpt")
    /\ ckpt_file # None
    /\ ckpt_file[1].hyper_parameters # None

\* C7: a model initialized from a valid checkpoint has the checkpoint's
\* recorded layer count and the Run Configuration's beam count and cosine
\* schedule period.
C7_ArchFromCheckpointRestFromConfig ==
    LoadedFromCheckpoint =>
        LET hp == ckpt_file[1].hyper_parameters[1] IN
        /\ model # None
        /\ model[1].n_layers = hp.n_layers
        /\ model[1].n_beams = config.n_beams
        /\ model[1].cosine_schedule_period_iters =
              config.cosine_schedule_period_iters

\* the Run Configuration differs from the checkpoint's in every field.
C7_Witness ==
    /\ LoadedFromCheckpoint
    /\ LET hp == ckpt_file[1].hyper_parameters[1] IN
       /\ hp.n_layers # config.n_layers
       /\ hp.n_beams # config.n_beams
       /\ hp.cosine_schedule_period_iters #
             config.cosine_schedule_period_iters
    /\ state = "ready-for-inference"

\* C8: after predict with evaluate=True, however it ended, the results
\* artifact exists on disk.
C8_ArtifactAfterEvaluate ==
    (last_op.op = "predict" /\ last_op.evaluate) => result_file # None

\* an evaluation of a valid checkpoint ended with the annotation-index
\* error and left the metadata header.
C8_Witness ==
    /\ last_op.op = "predict" /\ last_op.evaluate
    /\ state = "ready-for-inference"
    /\ r_error = Some("TypeError")
    /\ result_file = Some("metadata")

(***************************************************************************)
(* Claims about the Preprocessing Chain, checked under SpecPre.            *)
(***************************************************************************)
\* C9: a spectrum of zero Euclidean norm is rejected by the unit-norm
\* step: the step does not return it as an accepted record.
C9_ZeroNormRejected ==
    (scaled # None /\ NormSq(spectrum.intensity) = 0) =>
        scaled[1].tag = "reject"

====
